---- MODULE Spec2Model ----
(***************************************************************************)
(* UserProvider (src/src/context/UserContext.tsx): the view state user,    *)
(* roles, permissions, loading; the async function                         *)
(* fetchUserAndRolesAndPermissions, whose runs interleave at their awaits; *)
(* the onAuthStateChange callback; the effect cleanup.                     *)
(*                                                                         *)
(* Each action is one synchronous block of the code: from a call or the    *)
(* resumption of an await up to the next await or the end of the function. *)
(* The four state variables hold the value last passed to their setter.    *)
(* A nullable value is a sequence of length at most one: <<>> is null and  *)
(* <<v>> is the value v, so that null, the empty list and the empty set    *)
(* are three different values.                                             *)
(***************************************************************************)
EXTENDS Integers, Sequences, FiniteSets, TLC

\* Number of auth-state-change events the SDK emits.
MaxEvents == 1

\* Number of runs of fetchUserAndRolesAndPermissions that start.
MaxRuns == 2

Null == <<>>
Some(v) == <<v>>
Val(x) == x[1]

\* Users the auth service can report.
Users == {"u1", "u2"}

\* Payloads of the user_roles query, select('roles(id, role_name)'): a list of
\* items, each with a list of role rows. A falsy role_name is "", a falsy id 0.
UserRolesPayloads ==
  { <<>>,
    << [roles |-> << [id |-> 1, role_name |-> "admin"] >>] >>,
    << [roles |-> << [id |-> 2, role_name |-> ""] >>] >>,
    << [roles |-> << [id |-> 1, role_name |-> "admin"] >>],
       [roles |-> << [id |-> 3, role_name |-> "viewer"] >>] >>,
    << [roles |-> << [id |-> 0, role_name |-> "guest"] >>] >> }

\* Responses { data, error } of the user_roles query.
UserRolesResponses ==
  { [error |-> TRUE, data |-> Null], [error |-> FALSE, data |-> Null] }
    \cup { [error |-> FALSE, data |-> Some(p)] : p \in UserRolesPayloads }

\* Contents of the resource_permissions table the backend may hold when a
\* query is answered.
PermissionTables ==
  { << [role_id |-> 1, resource_path |-> "/users", can_access |-> TRUE],
       [role_id |-> 3, resource_path |-> "/reports", can_access |-> TRUE],
       [role_id |-> 3, resource_path |-> "/secret", can_access |-> FALSE] >>,
    << [role_id |-> 1, resource_path |-> "/users", can_access |-> FALSE],
       [role_id |-> 3, resource_path |-> "/", can_access |-> TRUE],
       [role_id |-> 2, resource_path |-> "/admin", can_access |-> TRUE] >> }

RECURSIVE Flatten(_)
Flatten(ss) == IF ss = <<>> THEN <<>> ELSE Head(ss) \o Flatten(Tail(ss))

Range(s) == { s[i] : i \in DOMAIN s }

\* userRolesData || []
TypedUserRolesData(data) == IF data = Null THEN <<>> ELSE Val(data)

RoleNamesOf(ur) == [i \in DOMAIN ur.roles |-> ur.roles[i].role_name]

RoleIdsOf(ur) == [i \in DOMAIN ur.roles |-> ur.roles[i].id]

\* Boolean(role_name)
TruthyName(x) == x # ""

\* Boolean(id)
TruthyId(x) == x # 0

\* FetchedRoles without its filter(Boolean).
FetchedRolesUnfiltered(typed) ==
  Flatten([i \in DOMAIN typed |-> RoleNamesOf(typed[i])])

\* typed.flatMap(ur => ur.roles.map(role => role.role_name)).filter(Boolean)
FetchedRoles(typed) ==
  SelectSeq(Flatten([i \in DOMAIN typed |-> RoleNamesOf(typed[i])]), TruthyName)

\* typed.flatMap(ur => ur.roles.map(role => role.id)).filter(Boolean)
RoleIds(typed) ==
  SelectSeq(Flatten([i \in DOMAIN typed |-> RoleIdsOf(typed[i])]), TruthyId)

\* from('resource_permissions').select('resource_path')
\*   .in('role_id', roleIds).eq('can_access', true)
PermissionsQuery(table, roleIds) ==
  LET Match(row) == row.role_id \in Range(roleIds) /\ row.can_access
      hit == SelectSeq(table, Match)
  IN  [i \in DOMAIN hit |-> [resource_path |-> hit[i].resource_path]]

\* Responses { data, error } the resource_permissions query can get.
PermissionsResponses(roleIds) ==
  { [error |-> TRUE, data |-> Null], [error |-> FALSE, data |-> Null] }
    \cup { [error |-> FALSE, data |-> Some(PermissionsQuery(t, roleIds))] :
             t \in PermissionTables }

\* FetchedPermissions without the added '/'.
FetchedPermissionsNoRoot(data) ==
  IF data = Null THEN {}
  ELSE { Val(data)[i].resource_path : i \in DOMAIN Val(data) }

\* new Set(permissionsData?.map(p => p.resource_path) || []), plus '/' when
\* the set is not empty
FetchedPermissions(data) ==
  LET paths == IF data = Null THEN {}
               ELSE { Val(data)[i].resource_path : i \in DOMAIN Val(data) }
  IN  IF Cardinality(paths) > 0 THEN paths \cup {"/"} ELSE paths

\* user, roles, permissions, loading: the provider's state (useState).
\* phase, subscribed: the component's lifecycle and the auth subscription.
\* runs: the calls of fetchUserAndRolesAndPermissions, in the order they started,
\*   each with its position, its local variables and the requests it has issued.
\* authLog: what became of each auth event the SDK emitted.
\* latest: what the most recently started run has passed to setRoles and
\*   setPermissions so far (Null: nothing yet).
\* fetchedFor: the user whose id the query behind roles, and behind
\*   permissions, was made for (Null while the field is null).
\* lastResponse: the last answer a run got from the backend: the run, the
\*   request, whether it failed (getUser threw, or the query returned an
\*   error), and the data (the user of getUser, the rows of a query).
VARIABLES user, roles, permissions, loading, phase, subscribed, runs, authLog,
          latest, fetchedFor, lastResponse

vars == <<user, roles, permissions, loading, phase, subscribed, runs, authLog,
          latest, fetchedFor, lastResponse>>

\* One call of fetchUserAndRolesAndPermissions, suspended at its first await.
NewRun ==
  [pc |-> "getUser", authUser |-> Null, fetchedRoles |-> Null, roleIds |-> <<>>,
   issued |-> <<"getUser">>, outcome |-> "pending"]

\* A run that has returned: its local variables are gone.
DoneRun(run, how) ==
  [NewRun EXCEPT !.pc = "done", !.issued = run.issued, !.outcome = how]

NoResponse == [run |-> 0, request |-> "none", error |-> FALSE, data |-> Null]

Response(r, request, error, data) ==
  [run |-> r, request |-> request, error |-> error, data |-> data]

NothingYet == [roles |-> Null, permissions |-> Null]

ForNobody == [roles |-> Null, permissions |-> Null]

Init ==
  /\ user = Null
  /\ roles = Null
  /\ permissions = Null
  /\ loading = TRUE
  /\ phase = "constructed"
  /\ subscribed = FALSE
  /\ runs = <<>>
  /\ authLog = <<>>
  /\ latest = NothingYet
  /\ fetchedFor = ForNobody
  /\ lastResponse = NoResponse

\* setLoading(true), then the getUser request
StartRun ==
  /\ loading' = TRUE
  /\ runs' = Append(runs, NewRun)
  /\ latest' = NothingYet

\* What run r passes to setRoles and setPermissions in this step (Null: no call).
Wrote(r, newRoles, newPermissions) ==
  /\ latest' = IF r = Len(runs)
                 THEN [roles |-> IF newRoles = Null THEN latest.roles ELSE newRoles,
                       permissions |-> IF newPermissions = Null THEN latest.permissions
                                       ELSE newPermissions]
                 ELSE latest
  /\ fetchedFor' =
       [roles |-> IF newRoles = Null THEN fetchedFor.roles
                  ELSE IF Val(newRoles) = Null THEN Null ELSE runs[r].authUser,
        permissions |-> IF newPermissions = Null THEN fetchedFor.permissions
                        ELSE IF Val(newPermissions) = Null THEN Null
                        ELSE runs[r].authUser]

\* The effect: the first run, then the subscription.
Mount ==
  /\ phase = "constructed"
  /\ phase' = "mounted"
  /\ StartRun
  /\ subscribed' = TRUE
  /\ UNCHANGED <<user, roles, permissions, authLog, fetchedFor, lastResponse>>

\* OnAuthStateChange without the call of fetchUserAndRolesAndPermissions.
OnAuthStateChangeNoFetch(session) ==
  IF session # Null
    THEN /\ user' = session
         /\ UNCHANGED <<roles, permissions, loading, runs, latest, fetchedFor>>
    ELSE /\ user' = Null
         /\ roles' = Null
         /\ permissions' = Null
         /\ loading' = FALSE
         /\ fetchedFor' = ForNobody
         /\ UNCHANGED <<runs, latest>>

\* The callback given to onAuthStateChange.
OnAuthStateChange(session) ==
  IF session # Null
    THEN /\ user' = session
         /\ StartRun
         /\ UNCHANGED <<roles, permissions, fetchedFor>>
    ELSE /\ user' = Null
         /\ roles' = Null
         /\ permissions' = Null
         /\ loading' = FALSE
         /\ fetchedFor' = ForNobody
         /\ UNCHANGED <<runs, latest>>

\* The SDK emits an auth event; it calls the callback while it is subscribed.
AuthEvent(session) ==
  /\ phase # "constructed"
  /\ Len(authLog) < MaxEvents
  /\ (subscribed /\ session # Null) => Len(runs) < MaxRuns
  /\ IF subscribed
       THEN /\ OnAuthStateChange(session)
            /\ authLog' = Append(authLog, IF session # Null THEN "signin" ELSE "signout")
       ELSE /\ authLog' = Append(authLog, "dropped")
            /\ UNCHANGED <<user, roles, permissions, loading, runs, latest, fetchedFor>>
  /\ UNCHANGED <<phase, subscribed, lastResponse>>

\* Unmount with a cleanup that does not unsubscribe.
UnmountKeepsSubscription ==
  /\ phase = "mounted"
  /\ phase' = "unmounted"
  /\ UNCHANGED <<user, roles, permissions, loading, subscribed, runs, authLog,
                 latest, fetchedFor, lastResponse>>

\* The effect cleanup.
Unmount ==
  /\ phase = "mounted"
  /\ phase' = "unmounted"
  /\ subscribed' = FALSE
  /\ UNCHANGED <<user, roles, permissions, loading, runs, authLog, latest,
                 fetchedFor, lastResponse>>

\* Finish without setLoading(false).
FinishKeepsLoading(r, how) ==
  /\ runs' = [runs EXCEPT ![r] = DoneRun(runs[r], how)]
  /\ UNCHANGED loading

\* finally { setLoading(false) }, and the run is over
Finish(r, how) ==
  /\ loading' = FALSE
  /\ runs' = [runs EXCEPT ![r] = DoneRun(runs[r], how)]

\* Catch without setRoles(null).
CatchKeepsRoles(r) ==
  /\ permissions' = Null
  /\ Wrote(r, Null, Some(Null))
  /\ Finish(r, "failed")
  /\ UNCHANGED roles

\* Catch that calls fetchUserAndRolesAndPermissions again.
CatchRetries(r) ==
  /\ roles' = Null
  /\ permissions' = Null
  /\ Wrote(r, Some(Null), Some(Null))
  /\ loading' = TRUE
  /\ runs' = [runs EXCEPT ![r] = [NewRun EXCEPT !.issued = Append(runs[r].issued, "getUser")]]

\* catch { setRoles(null); setPermissions(null) } finally { ... }
Catch(r) ==
  /\ roles' = Null
  /\ permissions' = Null
  /\ Wrote(r, Some(Null), Some(Null))
  /\ Finish(r, "failed")

\* GetUserReturns without the else branch that clears roles and permissions.
GetUserReturnsNoElse(r, authUser) ==
  /\ runs[r].pc = "getUser"
  /\ user' = authUser
  /\ IF authUser # Null
       THEN /\ runs' = [runs EXCEPT ![r].pc = "user_roles",
                                    ![r].authUser = authUser,
                                    ![r].issued = Append(@, "user_roles")]
            /\ UNCHANGED <<roles, permissions, loading, latest, fetchedFor>>
       ELSE /\ Finish(r, "unauthenticated")
            /\ UNCHANGED <<roles, permissions, latest, fetchedFor>>
  /\ lastResponse' = Response(r, "getUser", FALSE, authUser)
  /\ UNCHANGED <<phase, subscribed, authLog>>

\* await supabase.auth.getUser() resolves
GetUserReturns(r, authUser) ==
  /\ runs[r].pc = "getUser"
  /\ user' = authUser
  /\ IF authUser # Null
       THEN /\ runs' = [runs EXCEPT ![r].pc = "user_roles",
                                    ![r].authUser = authUser,
                                    ![r].issued = Append(@, "user_roles")]
            /\ UNCHANGED <<roles, permissions, loading, latest, fetchedFor>>
       ELSE /\ roles' = Null
            /\ permissions' = Null
            /\ Wrote(r, Some(Null), Some(Null))
            /\ Finish(r, "unauthenticated")
  /\ lastResponse' = Response(r, "getUser", FALSE, authUser)
  /\ UNCHANGED <<phase, subscribed, authLog>>

\* await supabase.auth.getUser() rejects
GetUserThrows(r) ==
  /\ runs[r].pc = "getUser"
  /\ Catch(r)
  /\ lastResponse' = Response(r, "getUser", TRUE, Null)
  /\ UNCHANGED <<user, phase, subscribed, authLog>>

\* HasRoles that asks for the permissions whatever the roles.
HasRolesAlways(fetchedRoles) == TRUE

\* if (fetchedRoles.length > 0)
HasRoles(fetchedRoles) == Len(fetchedRoles) > 0

\* the user_roles query resolves
UserRolesReturns(r, resp) ==
  /\ runs[r].pc = "user_roles"
  /\ IF resp.error
       THEN Catch(r)
       ELSE LET typed == TypedUserRolesData(resp.data)
                fetchedRoles == FetchedRoles(typed)
            IN  /\ roles' = Some(fetchedRoles)
                /\ IF HasRoles(fetchedRoles)
                     THEN /\ runs' = [runs EXCEPT ![r].pc = "resource_permissions",
                                                  ![r].fetchedRoles = Some(fetchedRoles),
                                                  ![r].roleIds = RoleIds(typed),
                                                  ![r].issued = Append(@, "resource_permissions")]
                          /\ Wrote(r, Some(Some(fetchedRoles)), Null)
                          /\ UNCHANGED <<permissions, loading>>
                     ELSE /\ permissions' = Some({})
                          /\ Wrote(r, Some(Some(fetchedRoles)), Some(Some({})))
                          /\ Finish(r, "ok")
  /\ lastResponse' = Response(r, "user_roles", resp.error, resp.data)
  /\ UNCHANGED <<user, phase, subscribed, authLog>>

\* the resource_permissions query resolves
PermissionsReturns(r, resp) ==
  /\ runs[r].pc = "resource_permissions"
  /\ IF resp.error
       THEN Catch(r)
       ELSE LET fetchedPermissions == FetchedPermissions(resp.data)
            IN  /\ permissions' = Some(fetchedPermissions)
                /\ Wrote(r, Null, Some(Some(fetchedPermissions)))
                /\ Finish(r, "ok")
                /\ UNCHANGED roles
  /\ lastResponse' = Response(r, "resource_permissions", resp.error, resp.data)
  /\ UNCHANGED <<user, phase, subscribed, authLog>>

\* What getUser resolves to, and the session of an auth event: a user or null.
MaybeUser == {Null} \cup { Some(u) : u \in Users }

Next ==
  \/ Mount
  \/ Unmount
  \/ \E session \in MaybeUser : AuthEvent(session)
  \/ \E r \in DOMAIN runs, authUser \in MaybeUser : GetUserReturns(r, authUser)
  \/ \E r \in DOMAIN runs : GetUserThrows(r)
  \/ \E r \in DOMAIN runs, resp \in UserRolesResponses : UserRolesReturns(r, resp)
  \/ \E r \in DOMAIN runs :
       \E resp \in PermissionsResponses(runs[r].roleIds) : PermissionsReturns(r, resp)

Spec == Init /\ [][Next]_vars

\* Run r resumes from the await it is suspended at: its request returned or
\* threw.
RunStep(r) ==
  /\ r \in DOMAIN runs
  /\ \/ \E authUser \in MaybeUser : GetUserReturns(r, authUser)
     \/ GetUserThrows(r)
     \/ \E resp \in UserRolesResponses : UserRolesReturns(r, resp)
     \/ \E resp \in PermissionsResponses(runs[r].roleIds) : PermissionsReturns(r, resp)

\* Some run resumes.
AnyRunStep == \E r \in DOMAIN runs : RunStep(r)

\* The effect runs once the component is constructed, and while requests are
\* awaited one of them is answered; auth events and the unmount need not
\* happen. A run that awaits a request keeps awaiting it until it is answered,
\* so this is no more than every request being answered.
FairSpec ==
  /\ Spec
  /\ WF_vars(Mount)
  /\ WF_vars(AnyRunStep)

(***************************************************************************)
(* Vocabulary of the properties.                                           *)
(***************************************************************************)

InFlight(r) == runs[r].pc # "done"

\* The effect has run and no run is in flight.
Quiescent == phase # "constructed" /\ \A r \in DOMAIN runs : ~InFlight(r)

IsDelivered(e) == e # "dropped"

\* The events the callback has handled, in order.
Delivered == SelectSeq(authLog, IsDelivered)

\* The last event the callback handled carried no session user.
SignedOut == Delivered # <<>> /\ Delivered[Len(Delivered)] = "signout"

\* This step hands an auth event to the callback.
DeliveredStep == subscribed /\ Len(authLog') = Len(authLog) + 1

\* In this step run r resumes from its await of the given request.
Resumes(r, request) ==
  /\ runs[r].pc # "done"
  /\ runs'[r].pc # runs[r].pc
  /\ lastResponse'.run = r
  /\ lastResponse'.request = request

RequestOrder == <<"getUser", "user_roles", "resource_permissions">>

Occurrences(s, x) == Cardinality({ i \in DOMAIN s : s[i] = x })

\* The non-empty role names of a user_roles payload, in order.
NonEmptyNames(data) ==
  IF data = Null THEN {}
  ELSE UNION { { Val(data)[i].roles[j].role_name : j \in DOMAIN Val(data)[i].roles } :
                 i \in DOMAIN Val(data) } \ {""}

\* The resource_path values of a resource_permissions payload.
ReturnedPaths(data) ==
  IF data = Null THEN {}
  ELSE { Val(data)[i].resource_path : i \in DOMAIN Val(data) }

(***************************************************************************)
(* C1 (as claimed): in every quiescent state, roles and permissions are    *)
(* the values the most recently started run produced, unless a sign-out    *)
(* event was handled after that run started.                               *)
(***************************************************************************)
C1_ReflectsLatestFetch ==
  (Quiescent /\ ~SignedOut) =>
    /\ latest.roles = Some(roles)
    /\ latest.permissions = Some(permissions)

(***************************************************************************)
(* C2: a run that resumes with a failure (getUser threw, or a query        *)
(* returned an error) ends in that step having set roles to null,          *)
(* permissions to null and loading to false.                               *)
(***************************************************************************)
C2_FailureClearsState ==
  [][\A r \in DOMAIN runs :
       (/\ runs[r].pc # "done"
        /\ runs'[r].pc # runs[r].pc
        /\ lastResponse'.run = r
        /\ lastResponse'.error)
       => /\ runs'[r].pc = "done"
          /\ roles' = Null
          /\ permissions' = Null
          /\ loading' = FALSE]_vars

\* A run failed at its last request, after it had set roles, and the state is
\* clear.
C2_Witness ==
  \E r \in DOMAIN runs :
    /\ lastResponse = Response(r, "resource_permissions", TRUE, Null)
    /\ runs[r].outcome = "failed"
    /\ runs[r].issued = RequestOrder
    /\ roles = Null /\ permissions = Null /\ loading = FALSE

(***************************************************************************)
(* C3 (as claimed): every auth event handed to the callback starts a new   *)
(* run.                                                                    *)
(***************************************************************************)
C3_EveryEventStartsRun ==
  [][DeliveredStep => Len(runs') = Len(runs) + 1]_vars

(***************************************************************************)
(* C3 (amended): every auth event that carries a session user and is       *)
(* handed to the callback starts a new run, which sets loading and issues  *)
(* getUser.                                                                *)
(***************************************************************************)
C3_SignInStartsRun ==
  [][(DeliveredStep /\ user' # Null) =>
       /\ Len(runs') = Len(runs) + 1
       /\ runs'[Len(runs')].pc = "getUser"
       /\ runs'[Len(runs')].issued = <<"getUser">>
       /\ loading' = TRUE]_vars

\* An event with a session user was handed to the callback while the first run
\* was over, and a second run is in flight.
C3_Witness ==
  /\ Delivered # <<>>
  /\ Delivered[Len(Delivered)] = "signin"
  /\ Len(runs) = 2
  /\ runs[1].pc = "done"
  /\ runs[2].pc = "getUser"

(***************************************************************************)
(* C4: a run issues getUser, then the user_roles query, then the           *)
(* resource_permissions query, each while no earlier request of the run is *)
(* outstanding; the user_roles query in the step in which getUser returned *)
(* a user, the resource_permissions query in the step in which the         *)
(* user_roles query returned, without error, a non-empty role name.        *)
(***************************************************************************)
C4_OrderInv ==
  \A r \in DOMAIN runs :
    /\ Len(runs[r].issued) \in 1..3
    /\ runs[r].issued = SubSeq(RequestOrder, 1, Len(runs[r].issued))
    /\ InFlight(r) => runs[r].pc = runs[r].issued[Len(runs[r].issued)]

C4_IssueStep ==
  \A r \in DOMAIN runs :
    runs'[r].issued # runs[r].issued =>
      /\ runs'[r].issued = Append(runs[r].issued, runs'[r].pc)
      /\ lastResponse'.run = r
      /\ lastResponse'.request = runs[r].pc
      /\ ~lastResponse'.error
      /\ runs'[r].pc = "user_roles" =>
           /\ runs[r].pc = "getUser"
           /\ lastResponse'.data # Null
      /\ runs'[r].pc = "resource_permissions" =>
           /\ runs[r].pc = "user_roles"
           /\ NonEmptyNames(lastResponse'.data) # {}

\* C4: the order holds in every state and every step that issues a request
\* is the resumption the claim names.
C4_RequestOrder == []C4_OrderInv /\ [][C4_IssueStep]_vars

\* A run went through the three requests and succeeded.
C4_Witness ==
  \E r \in DOMAIN runs :
    /\ runs[r].issued = RequestOrder
    /\ runs[r].outcome = "ok"

(***************************************************************************)
(* C5: the runs are the mount's plus one for each event with a session     *)
(* user; a run issues each request at most once; a run that failed is over.*)
(***************************************************************************)
C5_NoRetry ==
  /\ Len(runs) = (IF phase = "constructed" THEN 0 ELSE 1)
                   + Occurrences(authLog, "signin")
  /\ \A r \in DOMAIN runs :
       /\ \A i \in DOMAIN RequestOrder :
            Occurrences(runs[r].issued, RequestOrder[i]) <= 1
       /\ runs[r].outcome = "failed" => runs[r].pc = "done"

\* A request of the first run failed while the second run was in flight.
C5_Witness ==
  /\ Len(runs) = 2
  /\ runs[1].outcome = "failed"
  /\ InFlight(2)
  /\ lastResponse.run = 1 /\ lastResponse.error

(***************************************************************************)
(* C6: after the cleanup, a step in which the SDK emits an auth event      *)
(* starts no run and leaves user, roles, permissions and loading as they   *)
(* are.                                                                    *)
(***************************************************************************)
C6_NoEventAfterUnmount ==
  [][(phase = "unmounted" /\ authLog' # authLog) =>
       UNCHANGED <<user, roles, permissions, loading, runs>>]_vars

\* The SDK emitted an event after the cleanup.
C6_Witness ==
  /\ phase = "unmounted"
  /\ authLog # <<>>
  /\ authLog[Len(authLog)] = "dropped"

(***************************************************************************)
(* C7: permissions, when neither null nor empty, contains '/'; and a run   *)
(* whose resource_permissions query returns without error sets permissions *)
(* to the resource_path values returned, plus '/' exactly when some value  *)
(* was returned.                                                           *)
(***************************************************************************)
C7_RootInv ==
  (permissions # Null /\ Val(permissions) # {}) => "/" \in Val(permissions)

C7_PermissionsStep ==
  \A r \in DOMAIN runs :
    (Resumes(r, "resource_permissions") /\ ~lastResponse'.error) =>
      LET returned == ReturnedPaths(lastResponse'.data)
      IN  /\ runs'[r].outcome = "ok"
          /\ permissions' =
               Some(IF returned # {} THEN returned \cup {"/"} ELSE returned)

\* C7: '/' is in every non-empty permissions, and a successful query sets
\* permissions as the claim says.
C7_RootWhenPermissions == []C7_RootInv /\ [][C7_PermissionsStep]_vars

\* The query returned the one path "/users", and permissions holds "/" too.
C7_Witness ==
  /\ lastResponse.request = "resource_permissions"
  /\ lastResponse.data = Some(<<[resource_path |-> "/users"]>>)
  /\ permissions = Some({"/users", "/"})

(***************************************************************************)
(* C8: a run whose user_roles query returns without error and without a    *)
(* non-empty role name sets roles to the empty list and permissions to the *)
(* empty set and ends, the resource_permissions query not issued.          *)
(***************************************************************************)
C8_NoRolesNoPermissions ==
  [][\A r \in DOMAIN runs :
       (/\ Resumes(r, "user_roles")
        /\ ~lastResponse'.error
        /\ NonEmptyNames(lastResponse'.data) = {})
       => /\ roles' = Some(<<>>)
          /\ permissions' = Some({})
          /\ loading' = FALSE
          /\ runs'[r].outcome = "ok"
          /\ runs'[r].issued = <<"getUser", "user_roles">>]_vars

\* The query returned one role, whose name is empty.
C8_Witness ==
  \E r \in DOMAIN runs :
    /\ lastResponse.run = r
    /\ lastResponse.request = "user_roles"
    /\ ~lastResponse.error
    /\ lastResponse.data = Some(<<[roles |-> <<[id |-> 2, role_name |-> ""]>>]>>)
    /\ runs[r].outcome = "ok"
    /\ roles = Some(<<>>)
    /\ permissions = Some({})

(***************************************************************************)
(* C9: a run whose getUser returns no user sets user, roles and            *)
(* permissions to null and loading to false and ends, having issued        *)
(* getUser alone; these nulls differ from the empty list and the empty set *)
(* of a user without roles.                                                *)
(***************************************************************************)
C9_NoUserClearsState ==
  [][\A r \in DOMAIN runs :
       (/\ Resumes(r, "getUser")
        /\ ~lastResponse'.error
        /\ lastResponse'.data = Null)
       => /\ user' = Null
          /\ roles' = Null
          /\ permissions' = Null
          /\ roles' # Some(<<>>)
          /\ permissions' # Some({})
          /\ loading' = FALSE
          /\ runs'[r].pc = "done"
          /\ runs'[r].issued = <<"getUser">>]_vars

\* The second run's getUser returned no user after the first run had set roles
\* and permissions.
C9_Witness ==
  /\ Len(runs) = 2
  /\ runs[1].outcome = "ok"
  /\ lastResponse = Response(2, "getUser", FALSE, Null)
  /\ runs[2].outcome = "unauthenticated"
  /\ user = Null /\ roles = Null /\ permissions = Null

(***************************************************************************)
(* C10 (as claimed): while the last event handled is one with no session   *)
(* user, user, roles and permissions are null.                             *)
(***************************************************************************)
C10_SignedOutStaysNull ==
  SignedOut => (user = Null /\ roles = Null /\ permissions = Null)

(***************************************************************************)
(* C12 (as claimed): loading is true in every state in which a run is in   *)
(* flight.                                                                 *)
(***************************************************************************)
C12_LoadingWhileInFlight ==
  (\E r \in DOMAIN runs : InFlight(r)) => loading = TRUE

(***************************************************************************)
(* C14 (as claimed): in every state with loading false, roles is null      *)
(* exactly when permissions is null.                                       *)
(***************************************************************************)
C14_RolesAndPermissionsTogether ==
  loading = FALSE => ((roles = Null) <=> (permissions = Null))

(***************************************************************************)
(* C13: when every request is answered, the system reaches, from every     *)
(* state, a state with loading false in which every run that has started   *)
(* is through its finally block.                                           *)
(***************************************************************************)
C13_LoadingEnds == []<>(Quiescent /\ loading = FALSE)

\* Two runs overlapped, both are over and loading is false.
C13_Witness ==
  /\ Len(runs) = 2
  /\ Quiescent
  /\ loading = FALSE
  /\ lastResponse.run = 1

(***************************************************************************)
(* C11 (as claimed): in every quiescent state with a user, roles and       *)
(* permissions, when not null, come from queries made for the id of that   *)
(* user.                                                                   *)
(***************************************************************************)
C11_RolesOfTheUser ==
  (Quiescent /\ user # Null) =>
    /\ roles # Null => fetchedFor.roles = user
    /\ permissions # Null => fetchedFor.permissions = user

====
